---- MODULE Spec2Model ----
(***************************************************************************)
(* Model of the intervention simulation dashboard (src/app.py): the        *)
(* script's module-level state, the "Run Simulation" handler with its      *)
(* loop over the selected interventions and the years, and the linear      *)
(* predictor evaluated inside that loop.                                   *)
(*                                                                         *)
(* Numbers.  Coefficients are integers.  A level is held in hundredths     *)
(* (the sliders move in steps of 0.01), so 1.0 is LevelDen.  A predicted   *)
(* value is held as an integer count of 1/Scale, Scale = LevelDen^2, which *)
(* makes coefficient * level and coefficient * level * level exact.        *)
(* Binary floating-point rounding is not modelled.                         *)
(***************************************************************************)
EXTENDS Integers, Sequences, FiniteSets, TLC

VARIABLES
    files,                  \* clean_data/ on disk: path -> data frame
    df_dict,                \* module-level df_dict (line 22)
    selected_outcome,       \* sidebar widgets (lines 79-82)
    selected_subgroup,
    selected_interventions,
    start_year,
    end_year,
    intervention_levels,    \* lines 84-91
    pc,                     \* position of the script
    target_col,             \* locals of the Run Simulation block
    year_range,
    results_df,
    valid_plot,
    di,                     \* index of display_name in selected_interventions
    yi,                     \* index of year in year_range
    baseline_values,
    intervention_values,
    errors,                 \* st.error messages, in order
    charts,                 \* st.plotly_chart calls, in order
    last_results            \* <<results_df>> of the run before this one, <<>> in the first

vars == <<files, df_dict, selected_outcome, selected_subgroup,
          selected_interventions, start_year, end_year, intervention_levels,
          pc, target_col, year_range, results_df, valid_plot, di, yi,
          baseline_values, intervention_values, errors, charts, last_results>>

inputs == <<files, selected_outcome, selected_subgroup, selected_interventions,
            start_year, end_year, intervention_levels>>

----------------------------------------------------------------------------
(* Bounds of the model *)

\* The year slider offers SliderMin, SliderMin + 2, ..., SliderMin + 2 * NumYearSteps
\* (the program's slider goes up to 2050, twelve steps).
NumYearSteps == 1

\* At most this many interventions are chosen in the multiselect.
MaxSelected == 2

\* Slider positions tried for a level, in hundredths (the slider offers 50..100).
Levels == {50, 85}

\* The interventions offered in the multiselect.  "phibpe" takes the same branch
\* of every condition as "pdiabe" and "phearte" and is left out.
ModelledInterventions ==
    {"Diabetes Incidence Reduction", "Heart Disease Incidence Reduction",
     "MCI/Dementia Incidence Reduction"}

ModelledOutcomes == {"Population"}

ModelledSubgroups == {"All"}

----------------------------------------------------------------------------
(* Program constants *)

CLEANED_DATASETS ==
    ("pdiabe" :> "clean_data/pdiabe_cleaned.csv") @@
    ("phearte" :> "clean_data/phearte_cleaned.csv") @@
    ("phibpe" :> "clean_data/phibpe_cleaned.csv") @@
    ("pcogstate" :> "clean_data/pcogstate_cleaned.csv")

INTERVENTION_OPTIONS ==
    ("Diabetes Incidence Reduction" :> "pdiabe") @@
    ("Heart Disease Incidence Reduction" :> "phearte") @@
    ("Hypertension Incidence Reduction" :> "phibpe") @@
    ("MCI/Dementia Incidence Reduction" :> "pcogstate")

OUTCOME_OPTIONS ==
    ("Population" :> "n_startpop") @@
    ("Nursing Home Population" :> "n_nhmliv") @@
    ("Population with Dementia" :> "n_cogstate1") @@
    ("Dementia Prevalence (%)" :> "p_cogstate1") @@
    ("Population with MCI" :> "n_cogstate2") @@
    ("MCI Prevalence (%)" :> "p_cogstate2") @@
    ("Population with Diabetes" :> "n_diabe") @@
    ("Diabetes Prevalence (%)" :> "p_diabe") @@
    ("Population with Heart Disease" :> "n_hearte") @@
    ("Heart Disease Prevalence (%)" :> "p_hearte") @@
    ("Population with Hypertension" :> "n_hibpe") @@
    ("Hypertension Prevalence (%)" :> "p_hibpe")

SUBGROUP_OPTIONS ==
    ("Age 55-64" :> "5564") @@
    ("Age 65-74" :> "6574") @@
    ("Age 75-84" :> "7584") @@
    ("Age 85+" :> "85p") @@
    ("All" :> "all") @@
    ("Non-Hispanic black" :> "blk") @@
    ("At least some college" :> "college") @@
    ("Female" :> "f") @@
    ("Hispanic" :> "his") @@
    ("Hispanic female" :> "his_f") @@
    ("GED or less than high school" :> "hsless") @@
    ("Male" :> "m") @@
    ("Non-Hispanic white" :> "wht")

RefYear == 2024

SliderMin == 2026

SliderStep == 2

LevelDen == 100

Scale == LevelDen * LevelDen

----------------------------------------------------------------------------
(* Python helpers *)

\* range(start, stop, step) as a list, step > 0
RECURSIVE PyRange(_, _, _)
PyRange(start, stop, step) ==
    IF start >= stop THEN <<>>
    ELSE <<start>> \o PyRange(start + step, stop, step)

\* dict.get / Series.get with a default
Get(d, k, default) == IF k \in DOMAIN d THEN d[k] ELSE default

\* d[k] = v on a dict or a data frame
SetItem(d, k, v) == (k :> v) @@ d

\* a coefficient as a value, and value * level
Num(c) == c * Scale

Times(x, level) == (x * level) \div LevelDen

One == LevelDen

----------------------------------------------------------------------------
(* The linear predictor: the body of the year loop, lines 130-186 *)

YearInc(year) == year - RefYear

\* the row names of a coefficient table
ConsKey == "_cons"

Iv1Key == "ivparm1"

Iv2Key == "ivparm2"

Iv1Iv2Key == "c.ivparm1#c.ivparm2"

YearKey(year_inc) == ToString(year_inc) \o ".year_inc"

YearIv1Key(year_inc) == ToString(year_inc) \o ".year_inc#c.ivparm1"

YearIv2Key(year_inc) == ToString(year_inc) \o ".year_inc#c.ivparm2"

YearIv1Iv2Key(year_inc) == ToString(year_inc) \o ".year_inc#c.ivparm1#c.ivparm2"

\* a lookup whose default is not 0
Coef_DefaultOne(beta, name) == Get(beta, name, 1)

\* beta.get(name, 0)
Coef(beta, name) == Get(beta, name, 0)

\* if key == "pcogstate" (line 141)
IsTwoLevel(key) == key = "pcogstate"

\* a two-level baseline that leaves out the c.ivparm1#c.ivparm2 term
TwoLevelBase_NoInteraction(beta, year_inc) ==
    Num(Get(beta, ConsKey, 0)) + Num(Get(beta, YearKey(year_inc), 0))
    + Times(Num(Get(beta, Iv1Key, 0)), One)
    + Times(Num(Get(beta, YearIv1Key(year_inc), 0)), One)
    + Times(Num(Get(beta, Iv2Key, 0)), One)
    + Times(Num(Get(beta, YearIv2Key(year_inc), 0)), One)
    + Times(Times(Num(Get(beta, YearIv1Iv2Key(year_inc), 0)), One), One)

\* lines 152-165
TwoLevelBase(beta, year_inc) ==
    LET b_cons == Coef(beta, ConsKey)
        b_year == Coef(beta, YearKey(year_inc))
        b_iv1 == Coef(beta, Iv1Key)
        b_year_iv1 == Coef(beta, YearIv1Key(year_inc))
        b_iv2 == Coef(beta, Iv2Key)
        b_year_iv2 == Coef(beta, YearIv2Key(year_inc))
        b_iv1_iv2 == Coef(beta, Iv1Iv2Key)
        b_year_iv1_iv2 == Coef(beta, YearIv1Iv2Key(year_inc))
    IN  Num(b_cons) + Num(b_year)
        + Times(Num(b_iv1), One) + Times(Num(b_year_iv1), One)
        + Times(Num(b_iv2), One) + Times(Num(b_year_iv2), One)
        + Times(Times(Num(b_iv1_iv2), One), One)
        + Times(Times(Num(b_year_iv1_iv2), One), One)

\* a two-level intervention value that scales the ivparm2 term by L1
TwoLevelInter_WrongLevel(beta, year_inc, L1, L2) ==
    Num(Get(beta, ConsKey, 0)) + Num(Get(beta, YearKey(year_inc), 0))
    + Times(Num(Get(beta, Iv1Key, 0)), L1)
    + Times(Num(Get(beta, YearIv1Key(year_inc), 0)), L1)
    + Times(Num(Get(beta, Iv2Key, 0)), L1)
    + Times(Num(Get(beta, YearIv2Key(year_inc), 0)), L2)
    + Times(Times(Num(Get(beta, Iv1Iv2Key, 0)), L1), L2)
    + Times(Times(Num(Get(beta, YearIv1Iv2Key(year_inc), 0)), L1), L2)

\* lines 148-159, 168-171
TwoLevelInter(beta, year_inc, L1, L2) ==
    LET b_cons == Coef(beta, ConsKey)
        b_year == Coef(beta, YearKey(year_inc))
        b_iv1 == Coef(beta, Iv1Key)
        b_year_iv1 == Coef(beta, YearIv1Key(year_inc))
        b_iv2 == Coef(beta, Iv2Key)
        b_year_iv2 == Coef(beta, YearIv2Key(year_inc))
        b_iv1_iv2 == Coef(beta, Iv1Iv2Key)
        b_year_iv1_iv2 == Coef(beta, YearIv1Iv2Key(year_inc))
    IN  Num(b_cons) + Num(b_year)
        + Times(Num(b_iv1), L1) + Times(Num(b_year_iv1), L1)
        + Times(Num(b_iv2), L2) + Times(Num(b_year_iv2), L2)
        + Times(Times(Num(b_iv1_iv2), L1), L2)
        + Times(Times(Num(b_year_iv1_iv2), L1), L2)

\* lines 179-183
SingleLevelBase(beta, year_inc) ==
    LET b_cons == Coef(beta, ConsKey)
        b_year == Coef(beta, YearKey(year_inc))
        b_iv1 == Coef(beta, Iv1Key)
        b_year_iv1 == Coef(beta, YearIv1Key(year_inc))
    IN  Num(b_cons) + Num(b_year)
        + Times(Num(b_iv1), One) + Times(Num(b_year_iv1), One)

\* a single-level intervention value whose year interaction keeps level 1.0
SingleLevelInter_LevelDropped(beta, year_inc, L1) ==
    Num(Get(beta, ConsKey, 0)) + Num(Get(beta, YearKey(year_inc), 0))
    + Times(Num(Get(beta, Iv1Key, 0)), L1)
    + Times(Num(Get(beta, YearIv1Key(year_inc), 0)), One)

\* lines 177-186
SingleLevelInter(beta, year_inc, L1) ==
    LET b_cons == Coef(beta, ConsKey)
        b_year == Coef(beta, YearKey(year_inc))
        b_iv1 == Coef(beta, Iv1Key)
        b_year_iv1 == Coef(beta, YearIv1Key(year_inc))
    IN  Num(b_cons) + Num(b_year)
        + Times(Num(b_iv1), L1) + Times(Num(b_year_iv1), L1)

\* a loop body that takes the two-level branch for every intervention
BaseVal_AlwaysTwoLevel(key, beta, levels, year) ==
    TwoLevelBase(beta, YearInc(year))

\* base_val after one pass of the loop body for `year`
BaseVal(key, beta, levels, year) ==
    IF IsTwoLevel(key)
    THEN TwoLevelBase(beta, YearInc(year))
    ELSE SingleLevelBase(beta, YearInc(year))

\* inter_val after one pass of the loop body for `year`
InterVal(key, beta, levels, year) ==
    IF IsTwoLevel(key)
    THEN TwoLevelInter(beta, YearInc(year), levels["pcogstate_1"], levels["pcogstate_2"])
    ELSE SingleLevelInter(beta, YearInc(year), levels[key])

\* a difference taken the other way round
DiffValues_Reversed(inter, base) ==
    [i \in 1..(IF Len(inter) < Len(base) THEN Len(inter) ELSE Len(base)) |->
        base[i] - inter[i]]

\* diff_values (line 202)
DiffValues(inter, base) ==
    [i \in 1..(IF Len(inter) < Len(base) THEN Len(inter) ELSE Len(base)) |->
        inter[i] - base[i]]

----------------------------------------------------------------------------
(* Coefficient tables and data frames tried as inputs *)

EmptyTable == [name \in {} |-> 0]

\* the four rows of year offset year_inc, with values a, b, c, d
YearRows(year_inc, a, b, c, d) ==
    (YearKey(year_inc) :> a) @@ (YearIv1Key(year_inc) :> b) @@
    (YearIv2Key(year_inc) :> c) @@ (YearIv1Iv2Key(year_inc) :> d)

\* A table with every row for the year offsets 2, 4, ..., 2n; all values of one
\* year differ from each other, and s tells the tables of two data sets apart.
RECURSIVE FullYears(_, _)
FullYears(n, s) ==
    IF n = 0 THEN EmptyTable
    ELSE YearRows(SliderStep * n, 10 * n + s, -(n + 2), 3 * n + 4, -(5 * n + 1))
         @@ FullYears(n - 1, s)

FullTable(s) ==
    (ConsKey :> 20 + s) @@ (Iv1Key :> -6) @@ (Iv2Key :> 9) @@ (Iv1Iv2Key :> -2)
    @@ FullYears(NumYearSteps + 1, s)

\* A table fitted for the first year offset only and without second-level rows.
SparseTable(s) ==
    (ConsKey :> 30 + s) @@ (Iv1Key :> -7)
    @@ (YearKey(SliderStep) :> 3) @@ (YearIv1Key(SliderStep) :> -1)

\* The table of P4: main and interaction coefficients 1, _cons 0, year terms 0.
RECURSIVE ZeroYears(_)
ZeroYears(n) ==
    IF n = 0 THEN EmptyTable
    ELSE YearRows(SliderStep * n, 0, 0, 0, 0) @@ ZeroYears(n - 1)

P4Table ==
    (ConsKey :> 0) @@ (Iv1Key :> 1) @@ (Iv2Key :> 1) @@ (Iv1Iv2Key :> 1)
    @@ ZeroYears(NumYearSteps + 1)

TableShift(key) ==
    CASE key = "pdiabe" -> 0
      [] key = "phearte" -> 1
      [] key = "phibpe" -> 2
      [] OTHER -> 3

BetaTables(key) ==
    {FullTable(TableShift(key)), SparseTable(TableShift(key))}
    \cup (IF key = "pcogstate" THEN {P4Table} ELSE {})

ModelledTargetCol == "n_startpop_all"

\* The data frames a cleaned file may hold: one with the selected column, or one
\* that has another column only.
DataFrames(key) ==
    {(ModelledTargetCol :> t) : t \in BetaTables(key)}
    \cup {("n_nhmliv_all" :> FullTable(TableShift(key)))}

ModelledKeys == {INTERVENTION_OPTIONS[d] : d \in ModelledInterventions}

KeyOfPath(path) == CHOOSE k \in DOMAIN CLEANED_DATASETS : CLEANED_DATASETS[k] = path

\* The states of clean_data/: any subset of the files, each holding any frame.
FileSystems ==
    UNION {
        {f \in [P -> UNION {DataFrames(k) : k \in ModelledKeys}] :
            \A p \in P : f[p] \in DataFrames(KeyOfPath(p))} :
        P \in SUBSET {CLEANED_DATASETS[k] : k \in ModelledKeys}}

\* The selections of the multiselect: lists without repetition.
Selections ==
    UNION {
        {s \in [1..n -> ModelledInterventions] :
            \A i, j \in 1..n : i # j => s[i] # s[j]} :
        n \in 0..MaxSelected}

SliderYears == {SliderMin + SliderStep * k : k \in 0..NumYearSteps}

----------------------------------------------------------------------------
(* The script *)

\* load_cleaned_data (lines 13-20)
load_cleaned_data(fs) ==
    [key \in {k \in DOMAIN CLEANED_DATASETS : CLEANED_DATASETS[k] \in DOMAIN fs} |->
        fs[CLEANED_DATASETS[key]]]

\* the keys intervention_levels gets for a selection (lines 84-91)
RECURSIVE LevelKeys(_)
LevelKeys(sel) ==
    IF sel = <<>> THEN {}
    ELSE (IF INTERVENTION_OPTIONS[Head(sel)] = "pcogstate"
          THEN {"pcogstate_1", "pcogstate_2"}
          ELSE {INTERVENTION_OPTIONS[Head(sel)]})
         \cup LevelKeys(Tail(sel))

\* column names of results_df
BaselineCol(display_name) == "Baseline (" \o display_name \o ")"

InterventionCol(display_name) == "Intervention (" \o display_name \o ")"

ChangeCol(display_name) == "Change (" \o display_name \o ")"

\* a year range that leaves out end_year
YearRange_ExclusiveEnd(start, end) == PyRange(start, end, SliderStep)

\* year_range (line 100)
YearRange(start, end) == PyRange(start, end + 1, SliderStep)

Init ==
    /\ files \in FileSystems
    /\ df_dict = load_cleaned_data(files)
    /\ selected_outcome \in ModelledOutcomes
    /\ selected_subgroup \in ModelledSubgroups
    /\ selected_interventions \in Selections
    /\ start_year \in SliderYears
    /\ end_year \in {y \in SliderYears : y >= start_year}
    /\ intervention_levels \in [LevelKeys(selected_interventions) -> Levels]
    /\ pc = "idle"
    /\ target_col = ""
    /\ year_range = <<>>
    /\ results_df = EmptyTable
    /\ valid_plot = FALSE
    /\ di = 1
    /\ yi = 1
    /\ baseline_values = <<>>
    /\ intervention_values = <<>>
    /\ errors = <<>>
    /\ charts = <<>>
    /\ last_results = <<>>

display_name == selected_interventions[di]

key == INTERVENTION_OPTIONS[display_name]

\* the button is pressed: the script reruns from the top and enters the block
\* (lines 22, 93-108)
RunSimulation ==
    /\ pc \in {"idle", "stopped", "done"}
    /\ df_dict' = load_cleaned_data(files)
    /\ target_col' = OUTCOME_OPTIONS[selected_outcome] \o "_"
                     \o SUBGROUP_OPTIONS[selected_subgroup]
    /\ year_range' = YearRange(start_year, end_year)
    /\ results_df' = ("Year" :> YearRange(start_year, end_year))
    /\ valid_plot' = FALSE
    /\ di' = 1
    /\ yi' = 1
    /\ baseline_values' = <<>>
    /\ intervention_values' = <<>>
    /\ errors' = <<>>
    /\ charts' = <<>>
    /\ last_results' = IF pc = "idle" THEN <<>> ELSE <<results_df>>
    /\ pc' = "for_intervention"
    /\ UNCHANGED inputs

\* df is None: report and leave the loop
SkipNotLoaded_Break ==
    /\ pc = "for_intervention"
    /\ di <= Len(selected_interventions)
    /\ key \notin DOMAIN df_dict
    /\ errors' = Append(errors, "Dataset for " \o key \o " not loaded.")
    /\ di' = Len(selected_interventions) + 1
    /\ UNCHANGED <<inputs, df_dict, pc, target_col, year_range, results_df,
                   valid_plot, yi, baseline_values, intervention_values, charts,
                   last_results>>

\* df is None: report and continue (lines 112-116)
SkipNotLoaded ==
    /\ pc = "for_intervention"
    /\ di <= Len(selected_interventions)
    /\ key \notin DOMAIN df_dict
    /\ errors' = Append(errors, "Dataset for " \o key \o " not loaded.")
    /\ di' = di + 1
    /\ UNCHANGED <<inputs, df_dict, pc, target_col, year_range, results_df,
                   valid_plot, yi, baseline_values, intervention_values, charts,
                   last_results>>

\* target_col not in df.columns: report and continue (lines 118-120)
SkipNoColumn ==
    /\ pc = "for_intervention"
    /\ di <= Len(selected_interventions)
    /\ key \in DOMAIN df_dict
    /\ target_col \notin DOMAIN df_dict[key]
    /\ errors' = Append(errors, "Column '" \o target_col \o "' not found in "
                                \o key \o " dataset.")
    /\ di' = di + 1
    /\ UNCHANGED <<inputs, df_dict, pc, target_col, year_range, results_df,
                   valid_plot, yi, baseline_values, intervention_values, charts,
                   last_results>>

\* beta = df[target_col], the two lists kept from the intervention before
GetBeta_NoReset ==
    /\ pc = "for_intervention"
    /\ di <= Len(selected_interventions)
    /\ key \in DOMAIN df_dict
    /\ target_col \in DOMAIN df_dict[key]
    /\ yi' = 1
    /\ pc' = "for_year"
    /\ UNCHANGED <<inputs, df_dict, target_col, year_range, results_df,
                   valid_plot, di, errors, charts, last_results, baseline_values,
                   intervention_values>>

\* beta = df[target_col]; the two lists start empty (lines 124-127)
GetBeta ==
    /\ pc = "for_intervention"
    /\ di <= Len(selected_interventions)
    /\ key \in DOMAIN df_dict
    /\ target_col \in DOMAIN df_dict[key]
    /\ baseline_values' = <<>>
    /\ intervention_values' = <<>>
    /\ yi' = 1
    /\ pc' = "for_year"
    /\ UNCHANGED <<inputs, df_dict, target_col, year_range, results_df,
                   valid_plot, di, errors, charts, last_results>>

beta == df_dict[key][target_col]

\* one pass of the year loop (lines 129-189)
YearStep ==
    /\ pc = "for_year"
    /\ yi <= Len(year_range)
    /\ baseline_values' =
         Append(baseline_values,
                BaseVal(key, beta, intervention_levels, year_range[yi]))
    /\ intervention_values' =
         Append(intervention_values,
                InterVal(key, beta, intervention_levels, year_range[yi]))
    /\ yi' = yi + 1
    /\ UNCHANGED <<inputs, df_dict, pc, target_col, year_range, results_df,
                   valid_plot, di, errors, charts, last_results>>

\* the columns are stored and valid_plot is left as it was
AddToResults_NoValidPlot ==
    /\ pc = "for_year"
    /\ yi > Len(year_range)
    /\ results_df' =
         SetItem(SetItem(SetItem(results_df,
                                 "Baseline (" \o display_name \o ")", baseline_values),
                         "Intervention (" \o display_name \o ")", intervention_values),
                 "Change (" \o display_name \o ")",
                 [i \in 1..Len(baseline_values) |->
                     intervention_values[i] - baseline_values[i]])
    /\ di' = di + 1
    /\ pc' = "for_intervention"
    /\ UNCHANGED <<inputs, df_dict, target_col, year_range, yi, baseline_values,
                   intervention_values, errors, charts, last_results, valid_plot>>

\* the columns of this intervention are stored (lines 198-208)
AddToResults ==
    /\ pc = "for_year"
    /\ yi > Len(year_range)
    /\ results_df' =
         SetItem(SetItem(SetItem(results_df,
                                 BaselineCol(display_name), baseline_values),
                         InterventionCol(display_name), intervention_values),
                 ChangeCol(display_name),
                 DiffValues(intervention_values, baseline_values))
    /\ valid_plot' = TRUE
    /\ di' = di + 1
    /\ pc' = "for_intervention"
    /\ UNCHANGED <<inputs, df_dict, target_col, year_range, yi, baseline_values,
                   intervention_values, errors, charts, last_results>>

\* if not valid_plot: st.stop() (lines 210-211)
Stop ==
    /\ pc = "for_intervention"
    /\ di > Len(selected_interventions)
    /\ ~valid_plot
    /\ pc' = "stopped"
    /\ UNCHANGED <<inputs, df_dict, target_col, year_range, results_df,
                   valid_plot, di, yi, baseline_values, intervention_values,
                   errors, charts, last_results>>

\* the traces of one chart: for each selected intervention, in order, the named
\* columns that results_df has (lines 221-266, 297-314)
RECURSIVE Traces(_, _, _)
Traces(sel, cols, df) ==
    IF sel = <<>> THEN <<>>
    ELSE LET here == [c \in 1..Len(cols) |-> cols[c] \o Head(sel) \o ")"]
             kept == SelectSeq(here, LAMBDA c : c \in DOMAIN df)
         IN  [i \in 1..Len(kept) |-> [name |-> kept[i], x |-> df["Year"], y |-> df[kept[i]]]]
             \o Traces(Tail(sel), cols, df)

\* both charts are drawn (lines 213-335)
RenderCharts ==
    /\ pc = "for_intervention"
    /\ di > Len(selected_interventions)
    /\ valid_plot
    /\ charts' = <<Traces(selected_interventions, <<"Baseline (", "Intervention (">>,
                          results_df),
                   Traces(selected_interventions, <<"Change (">>, results_df)>>
    /\ pc' = "done"
    /\ UNCHANGED <<inputs, df_dict, target_col, year_range, results_df,
                   valid_plot, di, yi, baseline_values, intervention_values,
                   errors, last_results>>

Next ==
    \/ RunSimulation
    \/ SkipNotLoaded
    \/ SkipNoColumn
    \/ GetBeta
    \/ YearStep
    \/ AddToResults
    \/ Stop
    \/ RenderCharts

Spec == Init /\ [][Next]_vars

----------------------------------------------------------------------------
(* Vocabulary of the properties *)

KeyOf(d) == INTERVENTION_OPTIONS[d]

\* the data set of d is loaded and has the selected column
Usable(d) ==
    /\ KeyOf(d) \in DOMAIN df_dict
    /\ target_col \in DOMAIN df_dict[KeyOf(d)]

TableOf(d) == df_dict[KeyOf(d)][target_col]

\* d has its columns in results_df
Stored(d) == BaselineCol(d) \in DOMAIN results_df

Selected == {selected_interventions[j] : j \in 1..Len(selected_interventions)}

\* the interventions the loop has finished with
Processed == {selected_interventions[j] : j \in 1..(di - 1)}

InRun == pc # "idle"

\* a run has ended, with or without charts
RunEnded == pc \in {"done", "stopped"}

\* the documented coefficient names for a year offset
DocYear(Y) == ToString(Y) \o ".year_inc"

DocYearIv1(Y) == DocYear(Y) \o "#c.ivparm1"

DocYearIv2(Y) == DocYear(Y) \o "#c.ivparm2"

DocYearIv1Iv2(Y) == DocYear(Y) \o "#c.ivparm1#c.ivparm2"

Iv2Family(Y) == {"ivparm2", DocYearIv2(Y), "c.ivparm1#c.ivparm2", DocYearIv1Iv2(Y)}

DocNames(Y) == {"_cons", DocYear(Y), "ivparm1", DocYearIv1(Y)} \cup Iv2Family(Y)

\* a documented lookup: the entry, 0 when the table has none
Lookup(T, name) == IF name \in DOMAIN T THEN T[name] ELSE 0

\* value(L) of the single-level formula, in units of 1/Scale, L in hundredths
Value1(T, Y, L) ==
    LET b_cons == Lookup(T, "_cons")
        b_year == Lookup(T, DocYear(Y))
        b_iv1 == Lookup(T, "ivparm1")
        b_year_iv1 == Lookup(T, DocYearIv1(Y))
    IN  Scale * (b_cons + b_year) + LevelDen * (b_iv1 * L + b_year_iv1 * L)

\* value(L1, L2) of the two-level formula, in units of 1/Scale
Value2(T, Y, L1, L2) ==
    LET b_cons == Lookup(T, "_cons")
        b_year == Lookup(T, DocYear(Y))
        b_iv1 == Lookup(T, "ivparm1")
        b_year_iv1 == Lookup(T, DocYearIv1(Y))
        b_iv2 == Lookup(T, "ivparm2")
        b_year_iv2 == Lookup(T, DocYearIv2(Y))
        b_iv1_iv2 == Lookup(T, "c.ivparm1#c.ivparm2")
        b_year_iv1_iv2 == Lookup(T, DocYearIv1Iv2(Y))
    IN  Scale * (b_cons + b_year)
        + LevelDen * (b_iv1 * L1 + b_year_iv1 * L1 + b_iv2 * L2 + b_year_iv2 * L2)
        + b_iv1_iv2 * L1 * L2 + b_year_iv1_iv2 * L1 * L2

\* the values computed so far in the year loop of the current intervention
InYearLoop == pc = "for_year"

----------------------------------------------------------------------------
(* C1 *)

\* C1: for every intervention other than "pcogstate", every year of the range
\* and every level L1, the baseline is value(1.0) and the intervention value
\* is value(L1) of the single-level formula with year_inc = year - 2024: both
\* for the values in the lists of the running year loop and for the columns a
\* run has stored when it ends, which have one entry per year.
C1_SingleLevelFormula ==
    /\ (InYearLoop /\ key # "pcogstate") =>
          \A i \in 1..Len(baseline_values) :
              /\ baseline_values[i] = Value1(beta, year_range[i] - 2024, 100)
              /\ intervention_values[i] =
                     Value1(beta, year_range[i] - 2024, intervention_levels[key])
    /\ \A d \in Selected : (RunEnded /\ Stored(d) /\ KeyOf(d) # "pcogstate") =>
          /\ Len(results_df[BaselineCol(d)]) = Len(year_range)
          /\ Len(results_df[InterventionCol(d)]) = Len(year_range)
          /\ \A i \in 1..Len(year_range) :
              /\ results_df[BaselineCol(d)][i] =
                     Value1(TableOf(d), year_range[i] - 2024, 100)
              /\ results_df[InterventionCol(d)][i] =
                     Value1(TableOf(d), year_range[i] - 2024,
                            intervention_levels[KeyOf(d)])

\* a finished run stored a single-level intervention over two years whose
\* intervention values differ from its baseline
C1_Witness ==
    /\ pc = "done"
    /\ Len(year_range) >= 2
    /\ \E d \in Selected :
          /\ Stored(d)
          /\ KeyOf(d) # "pcogstate"
          /\ TableOf(d) = FullTable(TableShift(KeyOf(d)))
          /\ \A i \in 1..Len(year_range) :
                results_df[InterventionCol(d)][i] # results_df[BaselineCol(d)][i]

----------------------------------------------------------------------------
(* C2 *)

\* C2: for "pcogstate", every year of the range and the levels L1, L2 held in
\* intervention_levels["pcogstate_1"] and ["pcogstate_2"], the baseline is
\* value(1.0, 1.0) and the intervention value is value(L1, L2) of the two-level
\* formula with year_inc = year - 2024, in the lists of the running year loop
\* and in the columns a run has stored when it ends.
C2_TwoLevelFormula ==
    /\ (InYearLoop /\ key = "pcogstate") =>
          \A i \in 1..Len(baseline_values) :
              /\ baseline_values[i] = Value2(beta, year_range[i] - 2024, 100, 100)
              /\ intervention_values[i] =
                     Value2(beta, year_range[i] - 2024,
                            intervention_levels["pcogstate_1"],
                            intervention_levels["pcogstate_2"])
    /\ \A d \in Selected : (RunEnded /\ Stored(d) /\ KeyOf(d) = "pcogstate") =>
          /\ Len(results_df[BaselineCol(d)]) = Len(year_range)
          /\ Len(results_df[InterventionCol(d)]) = Len(year_range)
          /\ \A i \in 1..Len(year_range) :
              /\ results_df[BaselineCol(d)][i] =
                     Value2(TableOf(d), year_range[i] - 2024, 100, 100)
              /\ results_df[InterventionCol(d)][i] =
                     Value2(TableOf(d), year_range[i] - 2024,
                            intervention_levels["pcogstate_1"],
                            intervention_levels["pcogstate_2"])

\* a finished run stored "pcogstate" from the full table with two different levels
C2_Witness ==
    /\ pc = "done"
    /\ Len(year_range) >= 2
    /\ \E d \in Selected :
          /\ Stored(d)
          /\ KeyOf(d) = "pcogstate"
          /\ TableOf(d) = FullTable(TableShift("pcogstate"))
          /\ intervention_levels["pcogstate_1"] # intervention_levels["pcogstate_2"]

----------------------------------------------------------------------------
(* C3 *)

\* the loop, run over a table T for intervention d, gives these two series
BaseSeries(d, T) ==
    [i \in 1..Len(year_range) |->
        BaseVal(KeyOf(d), T, intervention_levels, year_range[i])]

InterSeries(d, T) ==
    [i \in 1..Len(year_range) |->
        InterVal(KeyOf(d), T, intervention_levels, year_range[i])]

\* the names a run may look up in a table
RunNames == UNION {DocNames(year_range[i] - 2024) : i \in 1..Len(year_range)}

\* the interventions of S that are not usable
Unusable(S) == {d \in S : ~Usable(d)}

\* C3: when a run has ended, for every table T of a usable intervention and
\* every coefficient name k that T lacks, the stored baseline and intervention
\* values equal those computed from T extended with k mapped to 0; a missing
\* coefficient raises no error and skips nothing: every usable intervention is
\* stored and the only errors are those of the unusable interventions.
C3_ZeroDefault ==
    RunEnded =>
      /\ \A d \in Selected : Usable(d) =>
            /\ Stored(d)
            /\ \A k \in RunNames \ DOMAIN TableOf(d) :
                  /\ results_df[BaselineCol(d)] = BaseSeries(d, SetItem(TableOf(d), k, 0))
                  /\ results_df[InterventionCol(d)] =
                         InterSeries(d, SetItem(TableOf(d), k, 0))
      /\ Len(errors) = Cardinality(Unusable(Selected))

\* a finished run stored an intervention whose table lacks names of both
\* formulas, among them the year rows of a year of the range
C3_Witness ==
    /\ pc = "done"
    /\ \E d \in Selected :
          /\ Stored(d)
          /\ KeyOf(d) = "pcogstate"
          /\ "ivparm2" \notin DOMAIN TableOf(d)
          /\ \E i \in 1..Len(year_range) :
                DocYear(year_range[i] - 2024) \notin DOMAIN TableOf(d)

----------------------------------------------------------------------------
(* C4 *)

\* values an ivparm2-family coefficient is changed to
OtherValues == {0, 5}

\* the ivparm2-family names of the years of the run
RunIv2Names == UNION {Iv2Family(year_range[i] - 2024) : i \in 1..Len(year_range)}

\* C4: when a run has ended, for an intervention other than "pcogstate" the
\* stored series are those of any table that agrees on the single-level names
\* and differs in one ivparm2-family name; for "pcogstate" the second level is
\* in use: the stored series change when ivparm2 does.
C4_VariantSelection ==
    RunEnded =>
      \A d \in Selected : Stored(d) =>
        IF KeyOf(d) # "pcogstate"
        THEN \A k \in RunIv2Names : \A v \in OtherValues :
                /\ results_df[BaselineCol(d)] =
                       BaseSeries(d, SetItem(TableOf(d), k, v))
                /\ results_df[InterventionCol(d)] =
                       InterSeries(d, SetItem(TableOf(d), k, v))
        ELSE \A i \in 1..Len(year_range) :
                LET T == TableOf(d)
                    U == SetItem(T, "ivparm2", Lookup(T, "ivparm2") + 1)
                IN  /\ BaseSeries(d, U)[i] = results_df[BaselineCol(d)][i] + Scale
                    /\ InterSeries(d, U)[i] =
                           results_df[InterventionCol(d)][i]
                           + LevelDen * intervention_levels["pcogstate_2"]

\* a finished run stored a single-level intervention whose table has
\* ivparm2-family rows, and "pcogstate" beside it
C4_Witness ==
    /\ pc = "done"
    /\ \E d, e \in Selected :
          /\ Stored(d) /\ Stored(e)
          /\ KeyOf(d) # "pcogstate"
          /\ KeyOf(e) = "pcogstate"
          /\ "ivparm2" \in DOMAIN TableOf(d)
          /\ "c.ivparm1#c.ivparm2" \in DOMAIN TableOf(d)

----------------------------------------------------------------------------
(* C5 *)

\* C5: after a run, for every intervention that produced a result and every
\* year of the range, the stored Change value is the stored Intervention value
\* minus the stored Baseline value at the same position.
C5_ChangeConsistency ==
    \A d \in Selected : (RunEnded /\ Stored(d)) =>
        /\ ChangeCol(d) \in DOMAIN results_df
        /\ InterventionCol(d) \in DOMAIN results_df
        /\ Len(results_df[ChangeCol(d)]) = Len(year_range)
        /\ \A i \in 1..Len(year_range) :
              results_df[ChangeCol(d)][i] =
                  results_df[InterventionCol(d)][i] - results_df[BaselineCol(d)][i]

\* a finished run stored a non-zero change for every year of a two-year range
C5_Witness ==
    /\ pc = "done"
    /\ Len(year_range) >= 2
    /\ \E d \in Selected :
          /\ Stored(d)
          /\ \A i \in 1..Len(year_range) : results_df[ChangeCol(d)][i] # 0

----------------------------------------------------------------------------
(* C6 *)

\* the error reported for an unusable intervention
ErrorFor(d) ==
    IF KeyOf(d) \notin DOMAIN df_dict
    THEN "Dataset for " \o KeyOf(d) \o " not loaded."
    ELSE "Column '" \o OUTCOME_OPTIONS[selected_outcome] \o "_"
         \o SUBGROUP_OPTIONS[selected_subgroup] \o "' not found in "
         \o KeyOf(d) \o " dataset."

\* the errors of the first n selected interventions, in order
RECURSIVE ErrorsUpTo(_)
ErrorsUpTo(n) ==
    IF n = 0 THEN <<>>
    ELSE ErrorsUpTo(n - 1)
         \o (IF Usable(selected_interventions[n]) THEN <<>>
             ELSE <<ErrorFor(selected_interventions[n])>>)

ColumnsOf(d) == {BaselineCol(d), InterventionCol(d), ChangeCol(d)}

\* C6: an intervention whose data set is not loaded, or lacks the selection
\* column, is reported as an error and gets no column; every other selected
\* intervention, before or after it, is processed, and its series are those
\* its own table, levels and years give, whatever else is selected.
C6_SkipAndContinue ==
    InRun =>
      /\ \A d \in Processed :
            IF Usable(d)
            THEN /\ ColumnsOf(d) \subseteq DOMAIN results_df
                 /\ RunEnded =>
                       /\ results_df[BaselineCol(d)] = BaseSeries(d, TableOf(d))
                       /\ results_df[InterventionCol(d)] = InterSeries(d, TableOf(d))
            ELSE ColumnsOf(d) \cap DOMAIN results_df = {}
      /\ errors = ErrorsUpTo(di - 1)
      /\ DOMAIN results_df =
            {"Year"} \cup UNION {ColumnsOf(d) : d \in Processed \ Unusable(Processed)}
      /\ RunEnded => Processed = Selected

\* a finished run skipped its first intervention for a missing column and
\* stored its second
C6_Witness ==
    /\ pc = "done"
    /\ Len(selected_interventions) = 2
    /\ KeyOf(selected_interventions[1]) \in DOMAIN df_dict
    /\ ~Usable(selected_interventions[1])
    /\ Stored(selected_interventions[2])
    /\ Len(errors) = 1

----------------------------------------------------------------------------
(* C7 *)

LoopFinished == pc = "for_intervention" /\ di > Len(selected_interventions)

\* C7: charts are rendered only if a selected intervention produced a result;
\* when every selected intervention was skipped, or none was selected, the run
\* stops with no chart; when one produced a result both charts are rendered,
\* with a baseline and an intervention trace, and a change trace, for each
\* intervention that produced a result.
C7_EarlyStop ==
    /\ charts # <<>> => (\E d \in Selected : Usable(d)) /\ pc = "done"
    /\ pc = "stopped" => charts = <<>> /\ \A d \in Selected : ~Usable(d)
    /\ LoopFinished => (valid_plot <=> \E d \in Selected : Usable(d))
    /\ pc = "done" =>
          /\ Len(charts) = 2
          /\ Len(charts[1]) = 2 * Cardinality(Selected \ Unusable(Selected))
          /\ Len(charts[2]) = Cardinality(Selected \ Unusable(Selected))

\* a finished run rendered its charts although one of its two interventions
\* was skipped
C7_Witness ==
    /\ pc = "done"
    /\ Len(charts) = 2
    /\ Len(selected_interventions) = 2
    /\ Len(errors) = 1
    /\ Len(charts[2]) = 1

----------------------------------------------------------------------------
(* C8 *)

\* "pcogstate" is stored and its table is that of P4
P4Stored(d) ==
    RunEnded /\ Stored(d) /\ KeyOf(d) = "pcogstate" /\ TableOf(d) = P4Table

\* C8 as stated: for the two-level table with main and interaction
\* coefficients 1, _cons 0 and year terms 0, the baseline is 4.
C8_P4BaselineIsFour ==
    \A d \in Selected : P4Stored(d) =>
        \A i \in 1..Len(year_range) : results_df[BaselineCol(d)][i] = 4 * Scale

\* C8 as amended: for that table the baseline is 3 = 1 + 1 + 1 (ivparm1,
\* ivparm2 and c.ivparm1#c.ivparm2, once each), the value of the documented
\* two-level formula at L1 = L2 = 1.0.
C8_P4BaselineIsThree ==
    \A d \in Selected : P4Stored(d) =>
        \A i \in 1..Len(year_range) :
            /\ results_df[BaselineCol(d)][i] = 3 * Scale
            /\ results_df[BaselineCol(d)][i] =
                   Value2(P4Table, year_range[i] - 2024, 100, 100)

\* a finished run stored "pcogstate" from the table of P4 over two years
C8_Witness ==
    /\ pc = "done"
    /\ Len(year_range) >= 2
    /\ \E d \in Selected : P4Stored(d)

----------------------------------------------------------------------------
(* C9 *)

\* C9: the years are start_year, start_year + 2, ..., end_year, strictly
\* ascending, and are the Year column; each stored series has one entry per
\* year, at the position of its year, and that entry is the value of the loop
\* body for that year alone, so the order of evaluation does not matter.
C9_YearIndependence ==
    InRun =>
      /\ year_range = [i \in 1..((end_year - start_year) \div 2 + 1) |->
                          start_year + 2 * (i - 1)]
      /\ \A i \in 1..(Len(year_range) - 1) : year_range[i] < year_range[i + 1]
      /\ results_df["Year"] = year_range
      /\ InYearLoop =>
            /\ Len(baseline_values) = yi - 1
            /\ Len(intervention_values) = yi - 1
            /\ \A i \in 1..(yi - 1) :
                  /\ baseline_values[i] =
                         BaseVal(key, beta, intervention_levels, year_range[i])
                  /\ intervention_values[i] =
                         InterVal(key, beta, intervention_levels, year_range[i])
      /\ \A d \in Selected : Stored(d) =>
            /\ \A c \in ColumnsOf(d) : Len(results_df[c]) = Len(year_range)
            /\ RunEnded => \A i \in 1..Len(year_range) :
                  /\ results_df[BaselineCol(d)][i] =
                         BaseVal(KeyOf(d), TableOf(d), intervention_levels,
                                 results_df["Year"][i])
                  /\ results_df[InterventionCol(d)][i] =
                         InterVal(KeyOf(d), TableOf(d), intervention_levels,
                                  results_df["Year"][i])

\* a finished run stored a series over the whole slider range whose values
\* differ from year to year
C9_Witness ==
    /\ pc = "done"
    /\ start_year = SliderMin
    /\ end_year = SliderMin + SliderStep * NumYearSteps
    /\ \E d \in Selected :
          /\ Stored(d)
          /\ results_df[BaselineCol(d)][1] # results_df[BaselineCol(d)][2]

----------------------------------------------------------------------------
(* C10 *)

\* no step writes the files, the loaded tables or the widgets' values
C10_ReadOnly ==
    /\ files' = files
    /\ df_dict' = df_dict
    /\ intervention_levels' = intervention_levels
    /\ selected_interventions' = selected_interventions
    /\ <<selected_outcome, selected_subgroup, start_year, end_year>>' =
           <<selected_outcome, selected_subgroup, start_year, end_year>>

\* the lists of the year loop hold this intervention's values only, and a run
\* that follows another with the same inputs ends with the same results
C10_NoCarry ==
    /\ InYearLoop =>
          /\ Len(baseline_values) = yi - 1
          /\ Len(intervention_values) = yi - 1
    /\ (pc \in {"done", "stopped"} /\ last_results # <<>>) =>
          results_df = last_results[1]

\* C10: a run never writes the coefficient tables or the intervention levels,
\* carries nothing from one year or intervention to the next, and two runs
\* with identical inputs produce identical series.
C10_PurityDeterminism == [](C10_NoCarry) /\ [][C10_ReadOnly]_vars

\* a second run ended after storing two interventions
C10_Witness ==
    /\ pc = "done"
    /\ last_results # <<>>
    /\ Cardinality({d \in Selected : Stored(d)}) = 2

====
